---- MODULE Spec2Model ----
(***************************************************************************)
(* A model of package gconfig (src/gconfig.go): property files are parsed  *)
(* into two layers (default and profile), Load publishes the loaded store   *)
(* through the package variable Gcg, and the accessors resolve a key        *)
(* across the two layers.                                                   *)
(*                                                                          *)
(* Go strings are TLA+ strings; Len, SubSeq and \o act on them as on        *)
(* sequences of characters.                                                 *)
(***************************************************************************)
EXTENDS Integers, Sequences, FiniteSets, TLC

VARIABLES
    profile,    \* the -profile flag variable (*profile), gconfig.go:36,148
    cpath,      \* the -path flag variable (*cpath), gconfig.go:35,147
    environ,    \* the process environment: variable name -> value ("" = unset)
    wd,         \* what os.Getwd answers: the working directory, or GetwdErr
    Gcg,        \* the package variable Gcg: NilPtr or a pointer to a store
    ret,        \* what the most recent call returned (and the call's arguments)
    loads,      \* the number of Load calls so far; call n allocates at 2n-1 and 2n
    lastOk,     \* history: the store returned by the most recent Load that succeeded
    crashed,    \* TRUE once a panic has ended the process
    file,       \* parser checks only: the property file under test
    parsed      \* parser checks only: what readPropertyFile made of `file`

vars == <<profile, cpath, environ, wd, Gcg, ret, loads, lastOk, crashed, file, parsed>>

----------------------------------------------------------------------------
(* Package strings, as far as gconfig.go uses it.                           *)

CharAt(str, i) == SubSeq(str, i, i)

HasPrefix(str, prefix) ==
    Len(str) >= Len(prefix) /\ SubSeq(str, 1, Len(prefix)) = prefix

HasSuffix(str, suffix) ==
    Len(str) >= Len(suffix)
      /\ SubSeq(str, Len(str) - Len(suffix) + 1, Len(str)) = suffix

\* strings.Contains(str, substr); the empty substr is contained in every string
Contains(str, substr) ==
    \E i \in 1..(Len(str) - Len(substr) + 1) :
        SubSeq(str, i, i + Len(substr) - 1) = substr

\* the positions of the one-character separator sep in str
SepPositions(str, sep) == {i \in 1..Len(str) : CharAt(str, i) = sep}

RECURSIVE SplitFrom(_, _, _)
SplitFrom(str, sep, from) ==
    LET later == {i \in SepPositions(str, sep) : i >= from}
    IN  IF later = {}
          THEN <<SubSeq(str, from, Len(str))>>
          ELSE LET p == CHOOSE i \in later : \A j \in later : i <= j
               IN  <<SubSeq(str, from, p - 1)>> \o SplitFrom(str, sep, p + 1)

\* strings.Split(str, sep) for a one-character sep: one more part than
\* separators, empty parts included
Split(str, sep) == SplitFrom(str, sep, 1)

\* strings.Trim(str, cutset): drops the leading and trailing characters that
\* are in cutset, and no other
Trim(str, cutset) ==
    LET keep == {i \in 1..Len(str) : ~Contains(cutset, CharAt(str, i))}
    IN  IF keep = {}
          THEN ""
          ELSE LET lo == CHOOSE i \in keep : \A j \in keep : i <= j
                   hi == CHOOSE i \in keep : \A j \in keep : i >= j
               IN  SubSeq(str, lo, hi)

UpperLetters == "ABCDEFGHIJKLMNOPQRSTUVWXYZ"
LowerLetters == "abcdefghijklmnopqrstuvwxyz"
Digits == "0123456789"

LowerChar(c) ==
    IF Contains(UpperLetters, c)
      THEN LET i == CHOOSE k \in 1..Len(UpperLetters) : CharAt(UpperLetters, k) = c
           IN  CharAt(LowerLetters, i)
      ELSE c

RECURSIVE ToLower(_)
ToLower(str) ==
    IF str = "" THEN "" ELSE LowerChar(CharAt(str, 1)) \o ToLower(SubSeq(str, 2, Len(str)))

----------------------------------------------------------------------------
(* Layers: configFile, gconfig.go:41-64, and the parser, gconfig.go:199-221 *)

NilFileInfo == [isNil |-> TRUE]
FileInfo(name) == [isNil |-> FALSE, name |-> name]

EmptyMap == [k \in {} |-> ""]
MapSet(m, key, value) ==
    [k \in DOMAIN m \cup {key} |-> IF k = key THEN value ELSE m[k]]

\* configFile{}: no file, nil map
ZeroConfigFile == [fileInfo |-> NilFileInfo, configs |-> EmptyMap]

addProperty(cf, key, value) ==
    LET k == Trim(key, " ")
        v == Trim(value, " ")
    IN  [cf EXCEPT !.configs = MapSet(cf.configs, k, v)]

RECURSIVE scanLinesAtLeastTwo(_, _)
\* faulty variant of scanLines: takes a line that splits into two parts or more
scanLinesAtLeastTwo(cf, lines) ==
    IF lines = <<>>
      THEN cf
      ELSE LET l == Head(lines)
               kv == Split(l, "=")
           IN  scanLinesAtLeastTwo(IF Len(kv) >= 2 THEN addProperty(cf, kv[1], kv[2]) ELSE cf,
                                   Tail(lines))

RECURSIVE scanLines(_, _)
scanLines(cf, lines) ==
    IF lines = <<>>
      THEN cf
      ELSE LET l == Head(lines)
               kv == Split(l, "=")
           IN  scanLines(IF Len(kv) = 2 THEN addProperty(cf, kv[1], kv[2]) ELSE cf,
                         Tail(lines))

\* f is a directory entry: its name, whether os.Open succeeds on it, and the
\* lines bufio.Scanner yields from it
readPropertyFile(f) ==
    IF ~f.openable
      THEN [cf |-> ZeroConfigFile, err |-> "open"]
      ELSE [cf |-> scanLines([fileInfo |-> FileInfo(f.name), configs |-> EmptyMap],
                             f.lines),
            err |-> "nil"]

----------------------------------------------------------------------------
(* The store, GConfig, gconfig.go:66-140                                    *)

\* new(GConfig)
ZeroGConfig ==
    [Profile |-> "", profileConfig |-> ZeroConfigFile, defaultConfig |-> ZeroConfigFile]

StandardPropFileName == "application.properties"

isDefault(cf) == cf.fileInfo.name = StandardPropFileName

addConfigFile(c, cf) ==
    IF isDefault(cf)
      THEN [c EXCEPT !.defaultConfig = cf]
      ELSE [c EXCEPT !.profileConfig = cf]

isEmpty(c) ==
    Cardinality(DOMAIN c.profileConfig.configs) = 0
      /\ Cardinality(DOMAIN c.defaultConfig.configs) = 0

\* interface{} values held by a layer: nil, or a string
NilIface == [isNil |-> TRUE]
StrIface(str) == [isNil |-> FALSE, str |-> str]

\* m[key] on a Go map: nil when the key is not in it
MapGet(m, key) == IF key \in DOMAIN m THEN StrIface(m[key]) ELSE NilIface

\* faulty variant of getValue: the default layer's value wins over the profile's
getValueDefaultFirst(c, key) ==
    LET v0 == MapGet(c.defaultConfig.configs, key)
    IN  IF v0.isNil /\ ~c.profileConfig.fileInfo.isNil
             /\ Contains(c.profileConfig.fileInfo.name, c.Profile)
          THEN MapGet(c.profileConfig.configs, key)
          ELSE v0

getValue(c, key) ==
    LET v0 == MapGet(c.defaultConfig.configs, key)
        v1 == IF ~c.profileConfig.fileInfo.isNil
                   /\ Contains(c.profileConfig.fileInfo.name, c.Profile)
                THEN MapGet(c.profileConfig.configs, key)
                ELSE v0
    IN  IF v1.isNil THEN MapGet(c.defaultConfig.configs, key) ELSE v1

\* faulty variant of Exists: tells a key by its value being a non-empty string
ExistsNonEmpty(c, key) == ~getValue(c, key).isNil /\ getValue(c, key).str # ""

Exists(c, key) == ~getValue(c, key).isNil

\* os.Getenv
Getenv(env, name) == IF name \in DOMAIN env THEN env[name] ELSE ""

\* os.Expand's helpers (package os, env.go), as os.ExpandEnv uses them
isShellSpecialVar(c) == Contains("*#$@!?-", c) \/ Contains(Digits, c)
isAlphaNum(c) ==
    c = "_" \/ Contains(Digits, c) \/ Contains(LowerLetters, c) \/ Contains(UpperLetters, c)

RECURSIVE scanAlphaNum(_, _)
\* the first position from i on that holds no alphanumeric character
scanAlphaNum(str, i) ==
    IF i <= Len(str) /\ isAlphaNum(CharAt(str, i)) THEN scanAlphaNum(str, i + 1) ELSE i

\* the name after a "$" and the number of characters it takes; str is not empty
getShellName(str) ==
    IF CharAt(str, 1) = "{"
      THEN IF Len(str) > 2 /\ isShellSpecialVar(CharAt(str, 2)) /\ CharAt(str, 3) = "}"
             THEN [name |-> CharAt(str, 2), w |-> 3]
             ELSE LET closing == {i \in 2..Len(str) : CharAt(str, i) = "}"}
                  IN  IF closing = {}
                        THEN [name |-> "", w |-> 1]
                        ELSE LET p == CHOOSE i \in closing : \A j \in closing : i <= j
                             IN  IF p = 2
                                   THEN [name |-> "", w |-> 2]
                                   ELSE [name |-> SubSeq(str, 2, p - 1), w |-> p]
      ELSE IF isShellSpecialVar(CharAt(str, 1))
             THEN [name |-> CharAt(str, 1), w |-> 1]
             ELSE LET e == scanAlphaNum(str, 1)
                  IN  [name |-> SubSeq(str, 1, e - 1), w |-> e - 1]

RECURSIVE expandFrom(_, _, _, _)
\* os.Expand's loop: j is the position under the scan, i the start of the text
\* not yet copied
expandFrom(str, j, i, env) ==
    IF j > Len(str)
      THEN SubSeq(str, i, Len(str))
      ELSE IF CharAt(str, j) = "$" /\ j + 1 <= Len(str)
             THEN LET nw == getShellName(SubSeq(str, j + 1, Len(str)))
                      piece == IF nw.name = "" /\ nw.w > 0 THEN ""
                               ELSE IF nw.name = "" THEN "$"
                               ELSE Getenv(env, nw.name)
                  IN  SubSeq(str, i, j - 1) \o piece
                        \o expandFrom(str, j + nw.w + 1, j + nw.w + 1, env)
             ELSE expandFrom(str, j + 1, i, env)

ExpandEnv(str, env) == expandFrom(str, 1, 1, env)

\* What a call gives back: a value, or a panic that ends the process
Returned(v) == [panic |-> FALSE, val |-> v]
Panicked == [panic |-> TRUE]

\* faulty variant of getStringValue: returns the resolved value as it is stored
getStringValueUnexpanded(c, key, env) ==
    LET v == getValue(c, key)
    IN  IF v.isNil THEN Panicked ELSE Returned(v.str)

\* v.(string) panics on a nil interface value
getStringValue(c, key, env) ==
    LET v == getValue(c, key)
    IN  IF v.isNil
          THEN Panicked
          ELSE IF HasPrefix(v.str, "${") /\ HasSuffix(v.str, "}")
                 THEN Returned(ExpandEnv(v.str, env))
                 ELSE Returned(v.str)

GetString(c, key, env) == getStringValue(c, key, env)

\* strings.Join(parts, sep)
RECURSIVE Join(_, _)
Join(parts, sep) ==
    IF Len(parts) = 0 THEN ""
    ELSE IF Len(parts) = 1 THEN parts[1]
    ELSE parts[1] \o sep \o Join(Tail(parts), sep)

\* the number of leading spaces of str
leadingSpaces(str) ==
    Cardinality({i \in 1..Len(str) : \A j \in 1..i : CharAt(str, j) = " "})

\* a list element is a placeholder when, spaces around it apart, it is
\* ${VAR} or ${VAR:default}
isPlaceholder(elem) ==
    HasPrefix(Trim(elem, " "), "${") /\ HasSuffix(Trim(elem, " "), "}")

\* the text between the braces of a placeholder element
placeholderBody(elem) == SubSeq(Trim(elem, " "), 3, Len(Trim(elem, " ")) - 1)

\* where the variable name ends inside the braces: at the first ":" or at
\* the end
nameEnd(body) ==
    IF SepPositions(body, ":") = {}
      THEN Len(body) + 1
      ELSE CHOOSE i \in SepPositions(body, ":") : \A j \in SepPositions(body, ":") : i <= j

placeholderName(elem) ==
    SubSeq(placeholderBody(elem), 1, nameEnd(placeholderBody(elem)) - 1)

placeholderDefault(elem) ==
    SubSeq(placeholderBody(elem), nameEnd(placeholderBody(elem)) + 1,
           Len(placeholderBody(elem)))

\* one element of a list value: a placeholder gives the variable's value
\* when the variable is set and its default otherwise, the spaces around it
\* kept; any other element is kept as it is
expandElement(elem, env) ==
    IF isPlaceholder(elem)
      THEN LET n == leadingSpaces(elem)
               t == Trim(elem, " ")
               v == Getenv(env, placeholderName(elem))
           IN  SubSeq(elem, 1, n)
                 \o (IF v # "" THEN v ELSE placeholderDefault(elem))
                 \o SubSeq(elem, n + Len(t) + 1, Len(elem))
      ELSE elem

expandElements(elems, env) == [i \in 1..Len(elems) |-> expandElement(elems[i], env)]

\* a variant that treats the value as GetString does: expanded whole when
\* it is wrapped in ${ }, unchanged otherwise
GetStringOrDefaultInCommaSeparatorWhole(c, key, env) ==
    LET v == getValue(c, key)
    IN  IF v.isNil
          THEN Returned("")
          ELSE IF HasPrefix(v.str, "${") /\ HasSuffix(v.str, "}")
                 THEN Returned(ExpandEnv(v.str, env))
                 ELSE Returned(v.str)

\* GetStringOrDefaultInCommaSeparator(key): the resolved value, split on
\* commas, each element expanded on its own, joined by commas again; the
\* empty string for a key of no layer
GetStringOrDefaultInCommaSeparator(c, key, env) ==
    LET v == getValue(c, key)
    IN  IF v.isNil
          THEN Returned("")
          ELSE Returned(Join(expandElements(Split(v.str, ","), env), ","))

----------------------------------------------------------------------------
(* Package strconv, as far as the typed accessors use it.  Every parser     *)
(* gives a value and an error; on a syntax error the value is the zero      *)
(* value.  The property values of this model are short decimal texts:       *)
(* range errors, and the exponent, hexadecimal, infinity and NaN spellings  *)
(* of ParseFloat, are not modelled.                                         *)

allDigits(str) == \A i \in 1..Len(str) : Contains(Digits, CharAt(str, i))

digitValue(c) == (CHOOSE k \in 1..Len(Digits) : CharAt(Digits, k) = c) - 1

RECURSIVE digitsValue(_)
digitsValue(str) ==
    IF str = ""
      THEN 0
      ELSE digitsValue(SubSeq(str, 1, Len(str) - 1)) * 10 + digitValue(CharAt(str, Len(str)))

hasSign(str) == str # "" /\ (CharAt(str, 1) = "+" \/ CharAt(str, 1) = "-")
unsigned(str) == IF hasSign(str) THEN SubSeq(str, 2, Len(str)) ELSE str
isNegative(str) == hasSign(str) /\ CharAt(str, 1) = "-"

Atoi(str) ==
    LET body == unsigned(str)
    IN  IF body = "" \/ ~allDigits(body)
          THEN [val |-> 0, err |-> "syntax"]
          ELSE [val |-> IF isNegative(str) THEN 0 - digitsValue(body) ELSE digitsValue(body),
                err |-> "nil"]

\* a decimal number num / 10^scale, with no trailing zero in the fraction
ZeroFloat == [num |-> 0, scale |-> 0]

RECURSIVE normalFloat(_, _)
normalFloat(num, scale) ==
    IF num = 0
      THEN ZeroFloat
      ELSE IF scale > 0 /\ num % 10 = 0
             THEN normalFloat(num \div 10, scale - 1)
             ELSE [num |-> num, scale |-> scale]

\* the value stands for the float32 nearest to the decimal number
ParseFloat(str) ==
    LET body == unsigned(str)
        parts == Split(body, ".")
        digits == IF Len(parts) = 2 THEN parts[1] \o parts[2] ELSE body
        scale == IF Len(parts) = 2 THEN Len(parts[2]) ELSE 0
    IN  IF Len(parts) > 2 \/ digits = "" \/ ~allDigits(digits)
          THEN [val |-> ZeroFloat, err |-> "syntax"]
          ELSE [val |-> normalFloat(IF isNegative(str)
                                      THEN 0 - digitsValue(digits)
                                      ELSE digitsValue(digits),
                                    scale),
                err |-> "nil"]

ParseBool(str) ==
    IF str \in {"1", "t", "T", "TRUE", "true", "True"}
      THEN [val |-> TRUE, err |-> "nil"]
      ELSE IF str \in {"0", "f", "F", "FALSE", "false", "False"}
             THEN [val |-> FALSE, err |-> "nil"]
             ELSE [val |-> FALSE, err |-> "syntax"]

\* The typed accessors drop the parser's error and return its value
GetInt(c, key, env) ==
    LET r == getStringValue(c, key, env)
    IN  IF r.panic THEN Panicked ELSE Returned(Atoi(r.val).val)

GetFloat(c, key, env) ==
    LET r == getStringValue(c, key, env)
    IN  IF r.panic THEN Panicked ELSE Returned(ParseFloat(r.val).val)

GetBool(c, key, env) ==
    LET r == getStringValue(c, key, env)
    IN  IF r.panic THEN Panicked ELSE Returned(ParseBool(r.val).val)

----------------------------------------------------------------------------
(* The file system the process runs on.  ioutil.ReadDir lists a directory   *)
(* sorted by file name ("-" sorts before "."), so a profile file comes      *)
(* before application.properties.                                           *)

PropFile(name, lines) == [name |-> name, openable |-> TRUE, lines |-> lines]
Unopenable(name) == [name |-> name, openable |-> FALSE, lines |-> <<>>]

DefaultLines ==
    << "# defaults",
       "app.name=gconfig test",
       "port = 80",
       "token=${A}",
       "blank=",
       "hosts=h1, ${A:h2},${GC_PROFILE}",
       "a=b=c",
       "" >>

DevLines ==
    << "app.name = gconfig dev profile",
       "port=8.5",
       "debug=t",
       "list=${A},${A}" >>

ProdLines == << "app.name=gconfig prod" >>

\* the directories that exist and can be listed, by path
Directories ==
    [ c |-> << PropFile("application-dev.properties", DevLines),
               PropFile("application-prod.properties", ProdLines),
               PropFile("application.properties", DefaultLines),
               PropFile("notes.txt", << "app.name=notes" >>) >>,
      g |-> << PropFile("application.properties", << "app.name=gconfig test" >>) >>,
      e |-> << >>,
      o |-> << PropFile("application-prod.properties", ProdLines),
               PropFile("notes.txt", << "app.name=notes" >>) >>,
      u |-> << PropFile("application-dev.properties", DevLines),
               Unopenable("application.properties") >> ]

DirOf(path) ==
    CASE path = "/c" -> "c"
      [] path = "/g/config" -> "g"
      [] path = "/e" -> "e"
      [] path = "/o" -> "o"
      [] path = "/u" -> "u"
      [] OTHER -> "none"

ReadDir(path) ==
    IF DirOf(path) = "none"
      THEN [files |-> <<>>, err |-> "ReadDir"]
      ELSE [files |-> Directories[DirOf(path)], err |-> "nil"]

----------------------------------------------------------------------------
(* Load, gconfig.go:142-293                                                 *)

NoError == [isNil |-> TRUE]
\* errors.Wrap(cause, message)
Wrap(cause, message) == [isNil |-> FALSE, cause |-> cause, message |-> message]

ErrConfigFileRequired == "At least one configuration file is required"

NilPtr == [addr |-> 0]
Ptr(addr, obj) == [addr |-> addr, obj |-> obj]

GetwdErr == [isErr |-> TRUE]
Getwd(dir) == [isErr |-> FALSE, dir |-> dir]

loadProfile(profileFlag, env) ==
    LET p == IF Len(profileFlag) = 0 THEN Getenv(env, "GC_PROFILE") ELSE profileFlag
    IN  ToLower(p)

getGoPath(wdir, env) ==
    IF wdir.isErr
      THEN [path |-> "", err |-> "Getwd"]
      ELSE LET gopath0 == Getenv(env, "GOPATH")
           IN  IF gopath0 = ""
                 THEN [path |-> "", err |-> "GOPATH not set"]
                 ELSE LET paths == Split(gopath0, ":")
                          hits == {i \in 1..Len(paths) : Contains(wdir.dir, paths[i])}
                          gopath == IF Contains(gopath0, ":") /\ hits # {}
                                      THEN paths[CHOOSE i \in hits : \A j \in hits : i <= j]
                                      ELSE gopath0
                      IN  IF ~Contains(wdir.dir, gopath)
                            THEN [path |-> "", err |-> "not within GOPATH"]
                            ELSE [path |-> gopath, err |-> "nil"]

loadPath(cpathFlag, wdir, env) ==
    LET path == IF Len(cpathFlag) = 0 THEN Getenv(env, "GC_PATH") ELSE cpathFlag
    IN  IF Len(path) = 0
          THEN LET gp == getGoPath(wdir, env)
               IN  IF gp.err # "nil"
                     THEN [path |-> "", err |-> gp.err]
                     ELSE [path |-> gp.path \o "/config", err |-> "nil"]
          ELSE [path |-> path, err |-> "nil"]

\* readPropertyFile on each file of the file system, computed once
AllFiles == UNION {{Directories[d][i] : i \in 1..Len(Directories[d])} : d \in DOMAIN Directories}
ReadResults == [f \in AllFiles |-> readPropertyFile(f)]

RECURSIVE readFiles(_, _)
\* the loop over the directory's files, gconfig.go:175-185
readFiles(gc, files) ==
    IF files = <<>>
      THEN [gc |-> gc, err |-> "nil"]
      ELSE LET f == Head(files)
               pf == "application-" \o gc.Profile \o ".properties"
           IN  IF f.name = StandardPropFileName \/ pf = f.name
                 THEN LET r == ReadResults[f]
                      IN  IF r.err # "nil"
                            THEN [gc |-> gc, err |-> r.err]
                            ELSE readFiles(addConfigFile(gc, r.cf), Tail(files))
                 ELSE readFiles(gc, Tail(files))

\* configError returns a new, empty store (allocated at addr) with the wrapped
\* error; Gcg stays
configError(cause, message, addr, oldGcg) ==
    [gc |-> Ptr(addr, ZeroGConfig), err |-> Wrap(cause, message), Gcg |-> oldGcg]

\* flag.Parse sets the variable of each flag the arguments give, and leaves
\* the variable of a flag they do not give as it is
flagParse(args, profileFlag, cpathFlag) ==
    [profile |-> IF args.hasProfile THEN args.profile ELSE profileFlag,
     cpath |-> IF args.hasPath THEN args.path ELSE cpathFlag]

\* faulty variant of loadStore: no check for a directory without entries
loadStoreNoEmptyCheck(profileFlag, cpathFlag, env, wdir, addr, oldGcg) ==
    LET gc0 == [ZeroGConfig EXCEPT !.Profile = loadProfile(profileFlag, env)]
        lp == loadPath(cpathFlag, wdir, env)
        rd == ReadDir(lp.path)
        rf == readFiles(gc0, rd.files)
    IN  IF lp.err # "nil"
          THEN configError(lp.err, "Error reading config directory path", addr + 1, oldGcg)
          ELSE IF rd.err # "nil"
                 THEN configError(rd.err, "Error reading config directory in path",
                                  addr + 1, oldGcg)
                 ELSE IF rf.err # "nil"
                        THEN configError(rf.err, "Error opening config file", addr + 1, oldGcg)
                        ELSE [gc |-> Ptr(addr, rf.gc), err |-> NoError,
                              Gcg |-> Ptr(addr, rf.gc)]

\* faulty variant of loadStore: Gcg = gc is assigned before the loop over the
\* files, so a file that cannot be opened leaves Gcg on the store in progress
loadStoreCommitsEarly(profileFlag, cpathFlag, env, wdir, addr, oldGcg) ==
    LET gc0 == [ZeroGConfig EXCEPT !.Profile = loadProfile(profileFlag, env)]
        lp == loadPath(cpathFlag, wdir, env)
        rd == ReadDir(lp.path)
        rf == readFiles(gc0, rd.files)
    IN  IF lp.err # "nil"
          THEN configError(lp.err, "Error reading config directory path", addr + 1, oldGcg)
          ELSE IF rd.err # "nil"
                 THEN configError(rd.err, "Error reading config directory in path",
                                  addr + 1, oldGcg)
                 ELSE IF Len(rd.files) = 0
                        THEN configError(ErrConfigFileRequired,
                                         "Config file not found in path", addr + 1, oldGcg)
                        ELSE IF rf.err # "nil"
                               THEN [gc |-> Ptr(addr + 1, ZeroGConfig),
                                     err |-> Wrap(rf.err, "Error opening config file"),
                                     Gcg |-> Ptr(addr, rf.gc)]
                               ELSE [gc |-> Ptr(addr, rf.gc), err |-> NoError,
                                     Gcg |-> Ptr(addr, rf.gc)]

\* Load after flag.Parse: what it returns (gc, err) and what Gcg is afterwards.
\* gc := new(GConfig) is allocated at addr, the store configError makes at
\* addr + 1.
loadStore(profileFlag, cpathFlag, env, wdir, addr, oldGcg) ==
    LET gc0 == [ZeroGConfig EXCEPT !.Profile = loadProfile(profileFlag, env)]
        lp == loadPath(cpathFlag, wdir, env)
        rd == ReadDir(lp.path)
        rf == readFiles(gc0, rd.files)
    IN  IF lp.err # "nil"
          THEN configError(lp.err, "Error reading config directory path", addr + 1, oldGcg)
          ELSE IF rd.err # "nil"
                 THEN configError(rd.err, "Error reading config directory in path",
                                  addr + 1, oldGcg)
                 ELSE IF Len(rd.files) = 0
                        THEN configError(ErrConfigFileRequired,
                                         "Config file not found in path", addr + 1, oldGcg)
                        ELSE IF rf.err # "nil"
                               THEN configError(rf.err, "Error opening config file",
                                                addr + 1, oldGcg)
                               ELSE [gc |-> Ptr(addr, rf.gc), err |-> NoError,
                                     Gcg |-> Ptr(addr, rf.gc)]

----------------------------------------------------------------------------
(* The state machine: a process that sets environment variables, calls Load *)
(* with some command line, and reads keys through Gcg.                      *)

MaxLoads == 2

\* the command lines: -path and -profile, each given or not
PathArgs == {"/c", "/e", "/o", "/u"}
ProfileArgs == {"dev", "Prod", ""}
CommandLines ==
    {[hasPath |-> hp, path |-> p, hasProfile |-> hq, profile |-> q] :
        hp \in BOOLEAN, p \in PathArgs \cup {""}, hq \in BOOLEAN, q \in ProfileArgs}

WellFormed(args) ==
    /\ (args.hasPath <=> args.path \in PathArgs)
    /\ (~args.hasProfile => args.profile = "")

\* the environment variables the process reads, and the values each may have
EnvValues ==
    [GC_PROFILE |-> {"", "Dev"},
     GC_PATH |-> {"", "/n"},
     GOPATH |-> {"", "/x:/g"},
     A |-> {"", "a1"}]
EnvNames == DOMAIN EnvValues
Environments == {env \in [EnvNames -> {"", "Dev", "/n", "/x:/g", "a1"}] :
                    \A n \in EnvNames : env[n] \in EnvValues[n]}

Keys == {"app.name", "port", "debug", "token", "list", "blank", "missing"}

\* the keys read as lists
ListKeys == {"app.name", "hosts", "list", "missing"}

ParserIdle == [cf |-> ZeroConfigFile, err |-> "nil", done |-> FALSE]

\* A fresh process: the flag variables hold their defaults, Gcg is nil, the
\* environment is any of Environments, and the working directory is /g/app.
Init ==
    /\ profile = ""
    /\ cpath = ""
    /\ environ \in Environments
    /\ wd = Getwd("/g/app")
    /\ Gcg = NilPtr
    /\ ret = [op |-> "none"]
    /\ loads = 0
    /\ lastOk = NilPtr
    /\ crashed = FALSE
    /\ file = PropFile(StandardPropFileName, <<>>)
    /\ parsed = ParserIdle

Setenv(name, value) ==
    /\ ~crashed
    /\ environ' = [environ EXCEPT ![name] = value]
    /\ ret' = [op |-> "Setenv"]
    /\ UNCHANGED <<profile, cpath, wd, Gcg, loads, lastOk, crashed, file, parsed>>

Load(args) ==
    /\ ~crashed
    /\ loads < MaxLoads
    /\ \E flags \in {flagParse(args, profile, cpath)} :
       \E out \in {loadStore(flags.profile, flags.cpath, environ, wd, 2 * loads + 1, Gcg)} :
           /\ profile' = flags.profile
           /\ cpath' = flags.cpath
           /\ Gcg' = out.Gcg
           /\ ret' = [op |-> "Load", args |-> args, gc |-> out.gc, err |-> out.err]
           /\ lastOk' = IF out.err.isNil THEN out.gc ELSE lastOk
    /\ loads' = loads + 1
    /\ UNCHANGED <<environ, wd, crashed, file, parsed>>

\* a read through the handle: cfg = gconfig.Gcg; cfg.GetString(key)
Answer(op, key, result) ==
    \E out \in {result} :
        /\ ret' = [op |-> op, key |-> key, out |-> out]
        /\ crashed' = out.panic
        /\ UNCHANGED <<profile, cpath, environ, wd, Gcg, loads, lastOk, file, parsed>>

CallGetString(key) ==
    ~crashed /\ Gcg # NilPtr /\ Answer("GetString", key, GetString(Gcg.obj, key, environ))

CallGetInt(key) ==
    ~crashed /\ Gcg # NilPtr /\ Answer("GetInt", key, GetInt(Gcg.obj, key, environ))

CallGetFloat(key) ==
    ~crashed /\ Gcg # NilPtr /\ Answer("GetFloat", key, GetFloat(Gcg.obj, key, environ))

CallGetBool(key) ==
    ~crashed /\ Gcg # NilPtr /\ Answer("GetBool", key, GetBool(Gcg.obj, key, environ))

CallExists(key) ==
    ~crashed /\ Gcg # NilPtr /\ Answer("Exists", key, Returned(Exists(Gcg.obj, key)))

CallGetStringOrDefaultInCommaSeparator(key) ==
    /\ ~crashed
    /\ Gcg # NilPtr
    /\ Answer("GetStringOrDefaultInCommaSeparator", key,
              GetStringOrDefaultInCommaSeparator(Gcg.obj, key, environ))

Next ==
    \/ \E name \in EnvNames : \E value \in EnvValues[name] : Setenv(name, value)
    \/ \E args \in {a \in CommandLines : WellFormed(a)} : Load(args)
    \/ \E key \in Keys : CallGetString(key)
    \/ \E key \in Keys : CallGetInt(key)
    \/ \E key \in Keys : CallGetFloat(key)
    \/ \E key \in Keys : CallGetBool(key)
    \/ \E key \in Keys : CallExists(key)
    \/ \E key \in ListKeys : CallGetStringOrDefaultInCommaSeparator(key)

Spec == Init /\ [][Next]_vars

----------------------------------------------------------------------------
(* The parser on its own: readPropertyFile applied to every file of up to   *)
(* three lines, one of them any text of up to MaxLineLen characters.        *)

MaxLineLen == 5

LineAlphabet == {"k", "=", " ", "\t", "#"}

RECURSIVE TextsOfLen(_)
TextsOfLen(n) ==
    IF n = 0 THEN {""} ELSE {t \o c : t \in TextsOfLen(n - 1), c \in LineAlphabet}

Texts == UNION {TextsOfLen(n) : n \in 0..MaxLineLen}

\* the lines that may stand before and after the line under test
ContextLines == {"k=v", "v = k"}
Contexts == {<<>>} \cup {<<l>> : l \in ContextLines}

TestFiles == {pre \o <<l>> \o post : pre \in Contexts, l \in Texts, post \in Contexts}

NoEnvironment == [n \in EnvNames |-> ""]

ParseInit ==
    /\ profile = ""
    /\ cpath = ""
    /\ environ = NoEnvironment
    /\ wd = Getwd("/g/app")
    /\ Gcg = NilPtr
    /\ ret = [op |-> "none"]
    /\ loads = 0
    /\ lastOk = NilPtr
    /\ crashed = FALSE
    /\ file \in {PropFile(StandardPropFileName, lines) : lines \in TestFiles}
                  \cup {Unopenable(StandardPropFileName)}
    /\ parsed = ParserIdle

ParseFile ==
    /\ ~parsed.done
    /\ \E r \in {readPropertyFile(file)} :
          parsed' = [cf |-> r.cf, err |-> r.err, done |-> TRUE]
    /\ UNCHANGED <<profile, cpath, environ, wd, Gcg, ret, loads, lastOk, crashed, file>>

ParseNext == ParseFile

ParseSpec == ParseInit /\ [][ParseNext]_vars

----------------------------------------------------------------------------
(* The claims.  An accessor claim speaks of the most recent call: `ret`     *)
(* holds its key and its answer, and Gcg and environ are as the call saw    *)
(* them.                                                                    *)

InDefault(c, key) == key \in DOMAIN c.defaultConfig.configs
InProfile(c, key) == key \in DOMAIN c.profileConfig.configs
ProfileLoaded(c) == ~c.profileConfig.fileInfo.isNil
NameHasProfile(c) == Contains(c.profileConfig.fileInfo.name, c.Profile)

IsWrapped(str) == HasPrefix(str, "${") /\ HasSuffix(str, "}")
\* what GetString makes of a resolved value (claim C5 is about this step)
AfterExpansion(str, env) == IF IsWrapped(str) THEN ExpandEnv(str, env) ELSE str

\* C1: for a key that has a value in at least one layer, GetString answers
\* with the profile layer's value when a profile layer is loaded, its file
\* name contains the active profile and it holds the key, and with the
\* default layer's value in every other case (the value as GetString hands
\* it out, that is after the environment expansion of C5).
C1_Precedence ==
    (ret.op = "GetString" /\ (InDefault(Gcg.obj, ret.key) \/ InProfile(Gcg.obj, ret.key)))
      => LET c == Gcg.obj
             key == ret.key
         IN  /\ ~ret.out.panic
             /\ IF ProfileLoaded(c) /\ NameHasProfile(c) /\ InProfile(c, key)
                  THEN ret.out.val = AfterExpansion(c.profileConfig.configs[key], environ)
                  ELSE /\ InDefault(c, key)
                       /\ ret.out.val = AfterExpansion(c.defaultConfig.configs[key], environ)

\* a key of both layers, read under profile dev, comes from the profile layer
C1_Witness ==
    /\ ret.op = "GetString"
    /\ ret.key = "app.name"
    /\ Gcg.obj.Profile = "dev"
    /\ InDefault(Gcg.obj, "app.name") /\ InProfile(Gcg.obj, "app.name")
    /\ ~ret.out.panic
    /\ ret.out.val = "gconfig dev profile"

\* C2: for a key absent from both layers GetString returns the empty string
\* and Exists returns false.
C2_AbsentKey ==
    /\ (ret.op = "GetString" /\ ~InDefault(Gcg.obj, ret.key) /\ ~InProfile(Gcg.obj, ret.key))
         => (~ret.out.panic /\ ret.out.val = "")
    /\ (ret.op = "Exists" /\ ~InDefault(Gcg.obj, ret.key) /\ ~InProfile(Gcg.obj, ret.key))
         => (~ret.out.panic /\ ret.out.val = FALSE)

ParseErrorOf(op, str) ==
    CASE op = "GetInt" -> Atoi(str).err
      [] op = "GetFloat" -> ParseFloat(str).err
      [] op = "GetBool" -> ParseBool(str).err

ZeroValueOf(op) ==
    CASE op = "GetInt" -> Returned(0)
      [] op = "GetFloat" -> Returned(ZeroFloat)
      [] op = "GetBool" -> Returned(FALSE)

\* C3: GetInt, GetFloat and GetBool are total: they never abort, and they
\* return the zero value for a key absent from both layers and for a value
\* that does not parse as the requested type.
C3_TypedTotal ==
    (ret.op \in {"GetInt", "GetFloat", "GetBool"})
      => LET c == Gcg.obj
             key == ret.key
             absent == ~InDefault(c, key) /\ ~InProfile(c, key)
         IN  /\ ~ret.out.panic
             /\ absent => ret.out = ZeroValueOf(ret.op)
             /\ (~absent
                   /\ ParseErrorOf(ret.op, AfterExpansion(getValue(c, key).str, environ)) # "nil")
                  => ret.out = ZeroValueOf(ret.op)

\* C4: Exists(key) is true exactly when a layer holds the key, whatever the
\* value: an empty value, or a placeholder that expands to the empty string,
\* still gives true; only a key missing from both layers gives false.
C4_Exists ==
    (ret.op = "Exists")
      => /\ ~ret.out.panic
         /\ ret.out.val = (InDefault(Gcg.obj, ret.key) \/ InProfile(Gcg.obj, ret.key))

\* Exists is true of a key stored with an empty value, which GetString reads as ""
C4_Witness ==
    /\ ret.op = "Exists"
    /\ ret.key = "blank"
    /\ InDefault(Gcg.obj, "blank")
    /\ Gcg.obj.defaultConfig.configs["blank"] = ""
    /\ GetString(Gcg.obj, "blank", environ) = Returned("")
    /\ ret.out.val = TRUE

\* the text between the leading "${" and the final "}" of a wrapped value
WrappedName(str) == SubSeq(str, 3, Len(str) - 1)

\* C5 as stated: a resolved value that starts with "${" and ends with "}" is
\* read as ${VAR}, and GetString returns the value of environment variable
\* VAR; any other resolved value is returned unchanged.
C5_AsStated ==
    (ret.op = "GetString" /\ ~ret.out.panic)
      => LET raw == getValue(Gcg.obj, ret.key).str
         IN  IF IsWrapped(raw)
               THEN ret.out.val = Getenv(environ, WrappedName(raw))
               ELSE ret.out.val = raw

\* C5 as amended: when the resolved value is a single placeholder ${VAR}
\* (it starts with "${", ends with "}" and VAR holds no "}"), GetString
\* returns the value of environment variable VAR, "" when VAR is unset; when
\* the value is not wrapped, GetString returns it unchanged.
C5_Expansion ==
    (ret.op = "GetString" /\ ~ret.out.panic)
      => LET raw == getValue(Gcg.obj, ret.key).str
         IN  /\ (IsWrapped(raw) /\ ~Contains(WrappedName(raw), "}"))
                  => ret.out.val = Getenv(environ, WrappedName(raw))
             /\ ~IsWrapped(raw) => ret.out.val = raw

\* a placeholder read while its variable is set
C5_Witness ==
    /\ ret.op = "GetString"
    /\ ret.key = "token"
    /\ getValue(Gcg.obj, "token") = StrIface("${A}")
    /\ environ["A"] = "a1"
    /\ ret.out = Returned("a1")

----------------------------------------------------------------------------
(* The parser's claims, on the file under test.                             *)

EqualsSigns(line) == Cardinality({i \in 1..Len(line) : CharAt(line, i) = "="})
ExactlyOneEquals(line) == EqualsSigns(line) = 1

\* the space and the tab stand for the white space of a property file
IsWhitespace(c) == c = " " \/ c = "\t"
NoSurroundingWhitespace(str) ==
    str = "" \/ (~IsWhitespace(CharAt(str, 1)) /\ ~IsWhitespace(CharAt(str, Len(str))))

\* a well-formed line written again with no white space around key and value
Compact(line) ==
    IF ExactlyOneEquals(line)
      THEN LET kv == Split(line, "=")
           IN  Trim(kv[1], " \t") \o "=" \o Trim(kv[2], " \t")
      ELSE line

CompactAll(lines) == [i \in 1..Len(lines) |-> Compact(lines[i])]

LayerOf(lines) == readPropertyFile(PropFile(StandardPropFileName, lines)).cf.configs

\* C6: the stored key and the stored value of every well-formed line have no
\* leading or trailing white space, so the file parses to the same layer as
\* the file written with no white space around its keys and values.
C6_TrimsWhitespace ==
    (parsed.done /\ parsed.err = "nil")
      => /\ \A k \in DOMAIN parsed.cf.configs :
               NoSurroundingWhitespace(k) /\ NoSurroundingWhitespace(parsed.cf.configs[k])
         /\ parsed.cf.configs = LayerOf(CompactAll(file.lines))

\* C7: a line that does not hold exactly one "=" is discarded: the parse
\* succeeds, every entry comes from a line with exactly one "=", and the
\* layer is the layer of the file without the discarded lines.
C7_DiscardsMalformed ==
    (parsed.done /\ file.openable)
      => /\ parsed.err = "nil"
         /\ \A k \in DOMAIN parsed.cf.configs :
               \E i \in 1..Len(file.lines) :
                   /\ ExactlyOneEquals(file.lines[i])
                   /\ Trim(Split(file.lines[i], "=")[1], " ") = k
         /\ parsed.cf.configs = LayerOf(SelectSeq(file.lines, ExactlyOneEquals))

\* a line with two "=" after a well-formed line leaves that line's entry alone
C7_Witness ==
    /\ parsed.done
    /\ file.lines = << "k=v", "k=k=k" >>
    /\ parsed.err = "nil"
    /\ DOMAIN parsed.cf.configs = {"k"}
    /\ parsed.cf.configs["k"] = "v"

----------------------------------------------------------------------------
(* Load's claims.  After a Load, profile and cpath are the flag variables   *)
(* as that call parsed them and environ is the environment it read.         *)

\* C8: Load on a directory that can be listed and has no entries fails with
\* ErrConfigFileRequired, wrapped, whatever the active profile.
C8_EmptyDirectory ==
    (ret.op = "Load")
      => LET lp == loadPath(cpath, wd, environ)
         IN  (lp.err = "nil" /\ DirOf(lp.path) # "none"
                /\ Len(Directories[DirOf(lp.path)]) = 0)
               => /\ ~ret.err.isNil
                  /\ ret.err.cause = ErrConfigFileRequired
                  /\ ret.err.message = "Config file not found in path"

\* the empty directory loaded under profile dev
C8_Witness ==
    /\ ret.op = "Load"
    /\ cpath = "/e"
    /\ loadProfile(profile, environ) = "dev"
    /\ ~ret.err.isNil
    /\ ret.err.cause = ErrConfigFileRequired

\* C9: Gcg refers to the store returned by the most recent Load that
\* succeeded, and is unset while none has: a Load that succeeds leaves Gcg on
\* the store it returns, a Load that fails leaves Gcg as it was.
C9_HandleIsLastLoaded ==
    /\ Gcg = lastOk
    /\ (ret.op = "Load" /\ ret.err.isNil) => Gcg = ret.gc
    /\ (ret.op = "Load" /\ ~ret.err.isNil) => Gcg.addr # ret.gc.addr

\* a Load that parsed the profile file and then could not open
\* application.properties, after a Load that succeeded
C9_Witness ==
    /\ ret.op = "Load"
    /\ ~ret.err.isNil
    /\ ret.err.cause = "open"
    /\ cpath = "/u"
    /\ loadProfile(profile, environ) = "dev"
    /\ Gcg # NilPtr
    /\ Gcg = lastOk

\* C10: the active profile of the store a Load returns is the lower-cased
\* -profile flag of that call's command line when it gives one, else the
\* lower-cased GC_PROFILE, else empty, whatever earlier Load calls were given.
C10_ProfilePerCall ==
    (ret.op = "Load" /\ ret.err.isNil)
      => ret.gc.obj.Profile =
            ToLower(IF ret.args.hasProfile /\ ret.args.profile # ""
                      THEN ret.args.profile
                      ELSE Getenv(environ, "GC_PROFILE"))

----------------------------------------------------------------------------
(* Claims C11 and C13.                                                      *)

FileNames(files) == {files[i].name : i \in 1..Len(files)}

\* C11: when the directory holds neither application.properties nor
\* application-<profile>.properties for the active profile, Load returns an
\* error.
C11_NeedsOneLayer ==
    (ret.op = "Load")
      => LET lp == loadPath(cpath, wd, environ)
             pf == "application-" \o loadProfile(profile, environ) \o ".properties"
         IN  (lp.err = "nil" /\ DirOf(lp.path) # "none"
                /\ StandardPropFileName \notin FileNames(Directories[DirOf(lp.path)])
                /\ pf \notin FileNames(Directories[DirOf(lp.path)]))
               => ~ret.err.isNil

BeginsWithHash(line) == HasPrefix(line, "#")
NotComment(line) == ~BeginsWithHash(line)

\* C13: a line that begins with # never adds an entry to the layer, also
\* when the rest of the line is key=value with exactly one "=": the layer is
\* the layer of the file without those lines.
C13_IgnoresComments ==
    (parsed.done /\ file.openable)
      => /\ parsed.err = "nil"
         /\ parsed.cf.configs = LayerOf(SelectSeq(file.lines, NotComment))

----------------------------------------------------------------------------
(* Claim C12.                                                               *)

\* the placeholder elements of a list value that name variable name
Naming(elems, name) ==
    {i \in 1..Len(elems) : isPlaceholder(elems[i]) /\ placeholderName(elems[i]) = name}

\* what a placeholder element stands for under env
ValueOrDefault(elem, env) ==
    IF Getenv(env, placeholderName(elem)) # ""
      THEN Getenv(env, placeholderName(elem))
      ELSE placeholderDefault(elem)

\* C12: GetStringOrDefaultInCommaSeparator(key) splits the resolved value on
\* commas and treats each element on its own, in order: a placeholder
\* element becomes the value of its environment variable when that is set
\* and its default when it is not, every other element is kept, a value
\* with no placeholder is returned unchanged, and setting one environment
\* variable changes only the elements that name it.
C12_ElementWise ==
    (ret.op = "GetStringOrDefaultInCommaSeparator" /\ ~getValue(Gcg.obj, ret.key).isNil)
      => LET raw == getValue(Gcg.obj, ret.key).str
             elems == Split(raw, ",")
             outs == Split(ret.out.val, ",")
         IN  /\ ~ret.out.panic
             /\ Len(outs) = Len(elems)
             /\ \A i \in 1..Len(elems) :
                    IF isPlaceholder(elems[i])
                      THEN Trim(outs[i], " ") = ValueOrDefault(elems[i], environ)
                      ELSE outs[i] = elems[i]
             /\ (\A i \in 1..Len(elems) : ~isPlaceholder(elems[i])) => ret.out.val = raw
             /\ \A name \in EnvNames : \A value \in EnvValues[name] :
                    LET after == Split(GetStringOrDefaultInCommaSeparator(
                                           Gcg.obj, ret.key,
                                           [environ EXCEPT ![name] = value]).val, ",")
                    IN  /\ Len(after) = Len(elems)
                        /\ \A i \in (1..Len(elems)) \ Naming(elems, name) :
                               after[i] = outs[i]

\* a list read with A unset and GC_PROFILE set: the plain element is kept,
\* ${A:h2} gives its default, ${GC_PROFILE} gives the variable's value
C12_Witness ==
    /\ ret.op = "GetStringOrDefaultInCommaSeparator"
    /\ ret.key = "hosts"
    /\ getValue(Gcg.obj, "hosts") = StrIface("h1, ${A:h2},${GC_PROFILE}")
    /\ environ["A"] = ""
    /\ environ["GC_PROFILE"] = "Dev"
    /\ ret.out = Returned("h1, h2,Dev")

====
